---- MODULE Spec2Model ----
(***************************************************************************)
(* Model of virtinst/domcapabilities.py: the DomainCapabilities object     *)
(* built from libvirt's domcapabilities XML, and its derived queries.      *)
(*                                                                         *)
(* Python values are modelled as strings: None is the string None below,   *)
(* the booleans are "True" and "False".  A path is a TLA+ string; Chars    *)
(* gives its characters, which is what the regular expressions look at.    *)
(***************************************************************************)
EXTENDS Integers, Sequences, FiniteSets, TLC

VARIABLES
    phase,      \* "new" before build_from_params, "built" after it returned, "failed" if it raised
    conn,       \* what the connection did during construction: [supports, fetch]
    caps,       \* the DomainCapabilities instance (self)
    pc,         \* position inside get_cpu_security_features: "idle", "loop", "newer", "older"
    idx,        \* index of the mode the loop of get_cpu_security_features is at
    features,   \* the local list `features` of get_cpu_security_features
    cpuXML,     \* the synthetic CPU descriptor of the mode being expanded
    rpcLog,     \* baseline RPCs issued by the query last started, in order
    result      \* the last query that finished: [op, arg, kind, val]

vars == <<phase, conn, caps, pc, idx, features, cpuXML, rpcLog, result>>

None == "<None>"

\* Bounds of the enumerated documents.
MaxModes == 2
MaxValues == 2
MaxEnums == 2

(***************************************************************************)
(* Strings as character sequences.                                         *)
(***************************************************************************)
Chars(s) ==
    CASE s = "" -> <<>>
      [] s = "ovmf-ia32" -> <<"o","v","m","f","-","i","a","3","2">>
      [] s = "OVMF_CODE.fd" -> <<"O","V","M","F","_","C","O","D","E",".","f","d">>
      [] s = "ovmf-x64/OVMF" -> <<"o","v","m","f","-","x","6","4","/","O","V","M","F">>
      [] s = ".fd" -> <<".","f","d">>
      [] s = "ovmf-x86_64-" -> <<"o","v","m","f","-","x","8","6","_","6","4","-">>
      [] s = "ovmf" -> <<"o","v","m","f">>
      [] s = "OVMF" -> <<"O","V","M","F">>
      [] s = "AAVMF_CODE.fd" -> <<"A","A","V","M","F","_","C","O","D","E",".","f","d">>
      [] s = "aarch64/QEMU_EFI" -> <<"a","a","r","c","h","6","4","/","Q","E","M","U","_","E","F","I">>
      [] s = "aarch64" -> <<"a","a","r","c","h","6","4">>
      [] s = "arm/QEMU_EFI" -> <<"a","r","m","/","Q","E","M","U","_","E","F","I">>
      [] s = "/OVMF/OVMF_CODE.fd" ->
            <<"/","O","V","M","F","/","O","V","M","F","_","C","O","D","E",".","f","d">>
      [] s = "/ovmf/x.bin" -> <<"/","o","v","m","f","/","x",".","b","i","n">>
      [] s = "/ovmf-ia32/fw" -> <<"/","o","v","m","f","-","i","a","3","2","/","f","w">>
      [] s = "/ovmf-x64/OVMF-pure.fd" ->
            <<"/","o","v","m","f","-","x","6","4","/","O","V","M","F","-","p","u","r","e",".","f","d">>
      [] s = "/aarch64/QEMU_EFI.fd" ->
            <<"/","a","a","r","c","h","6","4","/","Q","E","M","U","_","E","F","I",".","f","d">>
      [] s = "/arm/QEMU_EFI.fd" ->
            <<"/","a","r","m","/","Q","E","M","U","_","E","F","I",".","f","d">>
      [] s = "/opt/fw.bin" -> <<"/","o","p","t","/","f","w",".","b","i","n">>
      [] s = "\n/ovmf" -> <<"\n","/","o","v","m","f">>

(***************************************************************************)
(* re.match for the patterns of the table.  Every pattern of the table has *)
(* the shape  .*lit1.*lit2 ... [.*] : a pattern is the sequence of its     *)
(* literals.  re.match anchors at the start only, "." does not match a     *)
(* newline, and backtracking makes the match an existential one.           *)
(***************************************************************************)
RECURSIVE MatchFrom(_, _, _, _)
MatchFrom(lits, k, s, pos) ==
    IF k > Len(lits) THEN TRUE
    ELSE LET lit == Chars(lits[k]) IN
         \E j \in pos..(Len(s) - Len(lit) + 1) :
            /\ \A q \in pos..(j - 1) : s[q] # "\n"
            /\ \A q \in 1..Len(lit) : s[j + q - 1] = lit[q]
            /\ MatchFrom(lits, k + 1, s, j + Len(lit))

re_match(pattern, path) == MatchFrom(pattern, 1, Chars(path), 1)

\* The ordered dict _uefi_arch_patterns.
_uefi_arch_patterns ==
    << [arch |-> "i686",    patterns |-> << <<"ovmf-ia32">> >>],
       [arch |-> "x86_64",  patterns |-> << <<"OVMF_CODE.fd">>,
                                            <<"ovmf-x64/OVMF", ".fd">>,
                                            <<"ovmf-x86_64-">>,
                                            <<"ovmf">>,
                                            <<"OVMF">> >>],
       [arch |-> "aarch64", patterns |-> << <<"AAVMF_CODE.fd">>,
                                            <<"aarch64/QEMU_EFI">>,
                                            <<"aarch64">> >>],
       [arch |-> "armv7l",  patterns |-> << <<"arm/QEMU_EFI">> >>] >>

\* _uefi_arch_patterns.get(arch)
patterns_get(arch) ==
    IF \E a \in 1..Len(_uefi_arch_patterns) : _uefi_arch_patterns[a].arch = arch
    THEN _uefi_arch_patterns[CHOOSE a \in 1..Len(_uefi_arch_patterns) :
                                _uefi_arch_patterns[a].arch = arch].patterns
    ELSE None

(***************************************************************************)
(* XML property conversions.                                               *)
(***************************************************************************)
\* XMLProperty(..., is_yesno=True): absent stays None, otherwise val == "yes".
is_yesno(raw) == IF raw = None THEN None ELSE IF raw = "yes" THEN "True" ELSE "False"

\* Python truth value of None / "True" / "False" / a text.
Truthy(v) == v \notin {None, "False", ""}

PyBool(b) == IF b THEN "True" ELSE "False"

(***************************************************************************)
(* The parsed document.  A mode is [name, supported, models] with the raw  *)
(* attribute texts; a model is [model, usable, fallback]; an enum is       *)
(* [name, values].  loader_values are the <value> children of os/loader.   *)
(***************************************************************************)
Model(n, u, f) == [model |-> n, usable |-> u, fallback |-> f]
Mode(n, s, ms) == [name |-> n, supported |-> s, models |-> ms]
Enum(n, vs) == [name |-> n, values |-> vs]

HostModelLists ==
    { << Model("Skylake", None, "forbid") >>,
      << Model("Haswell", None, "allow"), Model("Skylake", None, "forbid") >>,
      << >> }

CustomModelLists ==
    { << Model("A", "yes", None), Model("B", "no", None), Model("C", None, None) >>,
      << >> }

\* A mode that is not supported has no children in libvirt's report.
ModeSet ==
    { Mode("host-model", "yes", ms) : ms \in HostModelLists }
    \cup { Mode("custom", "yes", ms) : ms \in CustomModelLists }
    \cup { Mode(n, s, << >>) : n \in {"host-model", "custom"}, s \in {"no", None} }
    \cup { Mode("host-passthrough", "yes", << >>) }

LoaderPaths ==
    { "/OVMF/OVMF_CODE.fd", "/ovmf/x.bin", "/ovmf-ia32/fw", "/ovmf-x64/OVMF-pure.fd",
      "/aarch64/QEMU_EFI.fd", "/opt/fw.bin" }

Archs == { "i686", "x86_64", "aarch64", "s390x", None }

EnumSet ==
    { Enum("readonly", <<"yes", "no">>), Enum("readonly", <<"no">>),
      Enum("readonly", << >>), Enum("type", <<"rom", "pflash">>),
      Enum("secure", <<"yes">>) }

SeqsUpTo(S, n) == UNION { [1..k -> S] : k \in 0..n }

\* A document as libvirt reports it for x86_64/kvm/pc.
BaseDoc ==
    [ arch |-> "x86_64", domain |-> "kvm", machine |-> "pc",
      path |-> "/usr/bin/qemu-kvm",
      modes |-> << Mode("host-model", "yes", << Model("Skylake", None, "forbid") >>),
                   Mode("custom", "yes", << Model("A", "yes", None),
                                            Model("B", "no", None),
                                            Model("C", None, None) >>) >>,
      loader_values |-> << "/OVMF/OVMF_CODE.fd" >>,
      loader_enums |-> << Enum("type", <<"rom", "pflash">>),
                          Enum("readonly", <<"yes", "no">>) >> ]

\* The documents a fetch may return: each family varies one part of BaseDoc.
Docs ==
    { [BaseDoc EXCEPT !.modes = ms] : ms \in SeqsUpTo(ModeSet, MaxModes) }
    \cup { [BaseDoc EXCEPT !.arch = a, !.loader_values = vs] :
              a \in Archs, vs \in SeqsUpTo(LoaderPaths, MaxValues) }
    \cup { [BaseDoc EXCEPT !.loader_enums = es] : es \in SeqsUpTo(EnumSet, MaxEnums) }

\* DomainCapabilities(conn): no document parsed, every property absent or empty.
StubCaps ==
    [ arch |-> None, domain |-> None, machine |-> None, path |-> None,
      modes |-> << >>, loader_values |-> << >>, loader_enums |-> << >> ]

\* DomainCapabilities(conn, parsexml=xml)
ParsedCaps(xml) == xml

(***************************************************************************)
(* build_from_params.  c is what the connection does: c.supports is the    *)
(* answer of check_support, c.fetch the outcome of getDomainCapabilities:  *)
(* [kind |-> "xml", doc], [kind |-> "empty"] (an empty text) or            *)
(* [kind |-> "error"] (an Exception).                                      *)
(***************************************************************************)
build_from_params_raising(c) ==
    IF c.supports /\ c.fetch.kind = "error"
    THEN [kind |-> "raise", obj |-> StubCaps]
    ELSE IF c.supports /\ c.fetch.kind = "xml"
         THEN [kind |-> "return", obj |-> ParsedCaps(c.fetch.doc)]
         ELSE [kind |-> "return", obj |-> StubCaps]

build_from_params(c) ==
    LET xml_truthy == c.supports /\ c.fetch.kind = "xml"
    IN  IF ~xml_truthy
        THEN [kind |-> "return", obj |-> StubCaps]
        ELSE [kind |-> "return", obj |-> ParsedCaps(c.fetch.doc)]

(***************************************************************************)
(* UEFI firmware queries.  A query yields [kind, val]: kind is "return" or *)
(* "raise" (val then names the exception).                                 *)
(***************************************************************************)
Return(v) == [kind |-> "return", val |-> v]
Raise(e) == [kind |-> "raise", val |-> e]

arch_can_uefi(self) ==
    \E a \in 1..Len(_uefi_arch_patterns) : _uefi_arch_patterns[a].arch = self.arch

\* for path in values: if re.match(pattern, path): return path
RECURSIVE FirstMatchingValue(_, _, _)
FirstMatchingValue(pattern, values, v) ==
    IF v > Len(values) THEN None
    ELSE IF re_match(pattern, values[v]) THEN values[v]
    ELSE FirstMatchingValue(pattern, values, v + 1)

\* for pattern in patterns: <inner loop over the values>
RECURSIVE ScanPatterns(_, _, _)
ScanPatterns(patterns, values, p) ==
    IF p > Len(patterns) THEN None
    ELSE LET hit == FirstMatchingValue(patterns[p], values, 1)
         IN  IF hit # None THEN hit ELSE ScanPatterns(patterns, values, p + 1)

\* The loops the other way round: values outside, patterns inside.
RECURSIVE ScanValuesFirst(_, _, _)
ScanValuesFirst(patterns, values, v) ==
    IF v > Len(values) THEN None
    ELSE IF \E p \in 1..Len(patterns) : re_match(patterns[p], values[v]) THEN values[v]
    ELSE ScanValuesFirst(patterns, values, v + 1)

find_uefi_path_values_first(self) ==
    IF ~arch_can_uefi(self) THEN Return(None)
    ELSE Return(ScanValuesFirst(patterns_get(self.arch), self.loader_values, 1))

find_uefi_path_for_arch(self) ==
    IF ~arch_can_uefi(self) THEN Return(None)
    ELSE Return(ScanPatterns(patterns_get(self.arch), self.loader_values, 1))

\* "UEFI %(arch)s: %(path)s" and "Custom: %(path)s", as the pieces of the text.
FormatUefi(arch, path) == <<"UEFI ", arch, ": ", path>>
FormatCustom(path) == <<"Custom: ", path>>

\* for arch, patterns in items(): for pattern in patterns: if re.match(...): return
RECURSIVE ScanArchs(_, _)
ScanArchs(path, a) ==
    IF a > Len(_uefi_arch_patterns) THEN FormatCustom(path)
    ELSE IF \E p \in 1..Len(_uefi_arch_patterns[a].patterns) :
                re_match(_uefi_arch_patterns[a].patterns[p], path)
         THEN FormatUefi(_uefi_arch_patterns[a].arch, path)
         ELSE ScanArchs(path, a + 1)

\* The scan restricted to the instance's own architecture.
label_for_own_arch(self, path) ==
    IF ~Truthy(path)
    THEN IF self.arch \in {"i686", "x86_64"} THEN Return(<<"BIOS">>) ELSE Return(<<"None">>)
    ELSE IF arch_can_uefi(self)
              /\ \E p \in 1..Len(patterns_get(self.arch)) :
                    re_match(patterns_get(self.arch)[p], path)
         THEN Return(FormatUefi(self.arch, path))
         ELSE Return(FormatCustom(path))

label_for_firmware_path(self, path) ==
    IF ~Truthy(path)
    THEN IF self.arch \in {"i686", "x86_64"} THEN Return(<<"BIOS">>) ELSE Return(<<"None">>)
    ELSE Return(ScanArchs(path, 1))

\* _CapsBlock.enum_names
enum_names(enums) == [i \in 1..Len(enums) |-> enums[i].name]

InSeq(x, seq) == \E i \in 1..Len(seq) : seq[i] = x

\* A lookup that keeps the first enum of a name.
get_enum_first(enums, name) ==
    IF ~InSeq(name, enum_names(enums)) THEN Raise("KeyError")
    ELSE Return(enums[CHOOSE i \in 1..Len(enums) :
                        /\ enums[i].name = name
                        /\ \A j \in 1..(i - 1) : enums[j].name # name])

\* _CapsBlock.get_enum: dict((e.name, e) for e in enums)[name]; in the dict a
\* later enum replaces an earlier one of the same name.
get_enum(enums, name) ==
    IF ~InSeq(name, enum_names(enums)) THEN Raise("KeyError")
    ELSE Return(enums[CHOOSE i \in 1..Len(enums) :
                        /\ enums[i].name = name
                        /\ \A j \in (i + 1)..Len(enums) : enums[j].name # name])

supports_uefi_xml(self) ==
    IF ~InSeq("readonly", enum_names(self.loader_enums)) THEN Return("False")
    ELSE LET e == get_enum(self.loader_enums, "readonly")
         IN  IF e.kind = "raise" THEN e
             ELSE Return(PyBool(InSeq("yes", e.val.values)))

(***************************************************************************)
(* CPU queries.                                                            *)
(***************************************************************************)
\* One element of the list of supports_safe_host_model: Python's `and` yields
\* its first falsy operand, else the last one.
SafeHostModelEntry(m) ==
    IF m.name # "host-model" THEN Return("False")
    ELSE IF ~Truthy(is_yesno(m.supported)) THEN Return(is_yesno(m.supported))
    ELSE IF Len(m.models) = 0 THEN Raise("IndexError")
    ELSE Return(PyBool(m.models[1].fallback = "forbid"))

supports_safe_host_model(self) ==
    IF \E i \in 1..Len(self.modes) : SafeHostModelEntry(self.modes[i]).kind = "raise"
    THEN Raise("IndexError")
    ELSE Return([i \in 1..Len(self.modes) |-> SafeHostModelEntry(self.modes[i]).val])

\* for model in m.models: if model.usable != "no": models.append(model.model)
RECURSIVE UsableModels(_, _)
UsableModels(models, k) ==
    IF k > Len(models) THEN << >>
    ELSE (IF models[k].usable # "no" THEN << models[k].model >> ELSE << >>)
         \o UsableModels(models, k + 1)

\* Only the models marked usable="yes".
RECURSIVE UsableYesModels(_, _)
UsableYesModels(models, k) ==
    IF k > Len(models) THEN << >>
    ELSE (IF models[k].usable = "yes" THEN << models[k].model >> ELSE << >>)
         \o UsableYesModels(models, k + 1)

RECURSIVE CpuModelsFromYes(_, _)
CpuModelsFromYes(modes, i) ==
    IF i > Len(modes) THEN << >>
    ELSE (IF modes[i].name = "custom" /\ Truthy(is_yesno(modes[i].supported))
          THEN UsableYesModels(modes[i].models, 1) ELSE << >>)
         \o CpuModelsFromYes(modes, i + 1)

get_cpu_models_usable_yes(self) == Return(CpuModelsFromYes(self.modes, 1))

\* for m in self.cpu.modes: if m.name == "custom" and m.supported: ...
RECURSIVE CpuModelsFrom(_, _)
CpuModelsFrom(modes, i) ==
    IF i > Len(modes) THEN << >>
    ELSE (IF modes[i].name = "custom" /\ Truthy(is_yesno(modes[i].supported))
          THEN UsableModels(modes[i].models, 1) ELSE << >>)
         \o CpuModelsFrom(modes, i + 1)

get_cpu_models(self) == Return(CpuModelsFrom(self.modes, 1))

(***************************************************************************)
(* The expansion of a mode, for get_cpu_security_features.                 *)
(***************************************************************************)
Child(tag, text, usable, fallback) ==
    [tag |-> tag, text |-> text, usable |-> usable, fallback |-> fallback]

\* mode.get_xml(): the serialised <mode> element, a copy of what was parsed.
get_xml(mode) ==
    [ tag |-> "mode",
      attrib |-> << <<"name", mode.name>>, <<"supported", mode.supported>> >>,
      children |-> [k \in 1..Len(mode.models) |->
                      Child("model", mode.models[k].model,
                            mode.models[k].usable, mode.models[k].fallback)] ]

\* The retagging done on the instance's own mode instead of on a parsed copy.
_convert_mode_in_place(self, i, setter) ==
    LET xml == get_xml(self.modes[i])
    IN  IF setter = "attrib_needs_dict"
        THEN [kind |-> "raise", val |-> "TypeError", self |-> self]
        ELSE [kind |-> "return",
              val  |-> [tag |-> "cpu", attrib |-> << >>,
                        children |-> Append(xml.children,
                                            Child("arch", self.arch, None, None))],
              self |-> [self EXCEPT !.modes[i].name = None,
                                    !.modes[i].supported = None]]

\* _convert_mode_to_cpu(self.modes[i].get_xml()): the descriptor it returns
\* (or the exception it raises) and the instance afterwards.  The element
\* it retags is the one ET.fromstring built, not a part of the instance.
\* root.attrib = None is accepted by the ElementTree of older interpreters
\* and is a TypeError for the newer ones: setter says which one runs.
_convert_mode_to_cpu(self, i, setter) ==
    LET xml == get_xml(self.modes[i])
    IN  IF setter = "attrib_needs_dict"
        THEN [kind |-> "raise", val |-> "TypeError", self |-> self]
        ELSE [kind |-> "return",
              val  |-> [tag |-> "cpu", attrib |-> << >>,
                        children |-> Append(xml.children,
                                            Child("arch", self.arch, None, None))],
              self |-> self]

Feature(n) == [name |-> n, policy |-> "require"]

\* The expanded CPU descriptors the hypervisor may answer with.
ExpandedFeatureLists ==
    { << Feature("vmx"), Feature("spec-ctrl"), Feature("ssbd"), Feature("spec-ctrl") >>,
      << Feature("ibpb"), Feature("virt-ssbd") >> }

\* Outcome of a baseline RPC: a descriptor, a libvirt.libvirtError, or
\* another exception.
RpcOutcomes ==
    { [kind |-> "ok", features |-> fl] : fl \in ExpandedFeatureLists }
    \cup { [kind |-> "libvirtError", features |-> << >>],
           [kind |-> "error", features |-> << >>] }

\* The local list sec_features.
sec_features_with_vmx == {"spec-ctrl", "ssbd", "ibpb", "virt-ssbd", "vmx"}

sec_features == {"spec-ctrl", "ssbd", "ibpb", "virt-ssbd"}

\* for feature in cpu.features: if feature.name in sec_features: append
RECURSIVE SecurityNames(_, _)
SecurityNames(fl, k) ==
    IF k > Len(fl) THEN << >>
    ELSE (IF fl[k].name \in sec_features THEN << fl[k].name >> ELSE << >>)
         \o SecurityNames(fl, k + 1)

\* if m.name != "host-model" or not m.supported: continue
mode_is_skipped(m) == m.name # "host-model" \/ ~Truthy(is_yesno(m.supported))

\* A handler that catches every exception.
except_any(out) == out.kind # "ok"

\* except libvirt.libvirtError in _get_expanded_cpu
except_libvirtError_expand(out) == out.kind = "libvirtError"

\* except libvirt.libvirtError in get_cpu_security_features
except_libvirtError_query(out) == out.kind = "libvirtError"

\* `continue` where the code has `break`.
continue_target(self, i) == i + 1

\* break: the loop is left, no later mode is visited.
break_target(self, i) == Len(self.modes) + 1

(***************************************************************************)
(* The state machine.                                                      *)
(***************************************************************************)
NoResult == [op |-> "none", arg |-> None, kind |-> "return", val |-> None]

LabelArgs ==
    { None, "", "/ovmf-ia32/fw", "/aarch64/QEMU_EFI.fd", "/arm/QEMU_EFI.fd",
      "/opt/fw.bin", "\n/ovmf" }

AttribSetters == { "attrib_none_ok", "attrib_needs_dict" }

Init ==
    /\ phase = "new"
    /\ conn = [supports |-> FALSE, fetch |-> "notcalled"]
    /\ caps = StubCaps
    /\ pc = "idle"
    /\ idx = 0
    /\ features = << >>
    /\ cpuXML = None
    /\ rpcLog = << >>
    /\ result = NoResult

\* DomainCapabilities.build_from_params(conn, emulator, arch, machine, hvtype)
build ==
    /\ phase = "new"
    /\ \E s \in BOOLEAN :
       \E k \in (IF s THEN {"xml", "empty", "error"} ELSE {"notcalled"}) :
       \E d \in (IF k = "xml" THEN Docs ELSE {StubCaps}) :
          LET r == build_from_params([supports |-> s, fetch |-> [kind |-> k, doc |-> d]])
          IN  /\ conn' = [supports |-> s, fetch |-> k]
              /\ IF r.kind = "return"
                 THEN phase' = "built" /\ caps' = r.obj
                 ELSE phase' = "failed" /\ caps' = caps
    /\ UNCHANGED <<pc, idx, features, cpuXML, rpcLog, result>>

\* A query that runs to its end in one step and issues no RPC.
Query(op, arg, r) ==
    /\ phase = "built"
    /\ pc = "idle"
    /\ result' = [op |-> op, arg |-> arg, kind |-> r.kind, val |-> r.val]
    /\ rpcLog' = << >>
    /\ UNCHANGED <<phase, conn, caps, pc, idx, features, cpuXML>>

q_find_uefi_path_for_arch ==
    Query("find_uefi_path_for_arch", None, find_uefi_path_for_arch(caps))

q_label_for_firmware_path ==
    \E path \in LabelArgs :
        Query("label_for_firmware_path", path, label_for_firmware_path(caps, path))

q_arch_can_uefi ==
    Query("arch_can_uefi", None, Return(PyBool(arch_can_uefi(caps))))

q_supports_uefi_xml ==
    Query("supports_uefi_xml", None, supports_uefi_xml(caps))

q_supports_safe_host_model ==
    Query("supports_safe_host_model", None, supports_safe_host_model(caps))

q_get_cpu_models ==
    Query("get_cpu_models", None, get_cpu_models(caps))

\* get_cpu_security_features leaves, returning or raising.
SecLeave(kind, val) ==
    /\ result' = [op |-> "get_cpu_security_features", arg |-> None,
                  kind |-> kind, val |-> val]
    /\ pc' = "idle"
    /\ idx' = 0
    /\ features' = << >>
    /\ cpuXML' = None

\* get_cpu_security_features is called: features = []
sec_begin ==
    /\ phase = "built"
    /\ pc = "idle"
    /\ pc' = "loop"
    /\ idx' = 1
    /\ features' = << >>
    /\ cpuXML' = None
    /\ rpcLog' = << >>
    /\ result' = NoResult
    /\ UNCHANGED <<phase, conn, caps>>

\* The head of `for m in self.cpu.modes`, up to the first RPC of the mode.
sec_loop ==
    /\ pc = "loop"
    /\ IF idx > Len(caps.modes)
       THEN SecLeave("return", features) /\ UNCHANGED <<caps, rpcLog>>
       ELSE IF mode_is_skipped(caps.modes[idx])
       THEN idx' = idx + 1
            /\ UNCHANGED <<caps, pc, features, cpuXML, rpcLog, result>>
       ELSE \E setter \in AttribSetters :
            LET r == _convert_mode_to_cpu(caps, idx, setter)
            IN  /\ caps' = r.self
                /\ IF r.kind = "raise"
                   THEN SecLeave("raise", r.val) /\ UNCHANGED rpcLog
                   ELSE /\ cpuXML' = r.val
                        /\ pc' = "newer"
                        /\ UNCHANGED <<idx, features, rpcLog, result>>
    /\ UNCHANGED <<phase, conn>>

\* The expansion succeeded: DomainCpu(conn, expandedXML), then the filter.
Expanded(out) ==
    /\ features' = features \o SecurityNames(out.features, 1)
    /\ idx' = idx + 1
    /\ pc' = "loop"
    /\ cpuXML' = None
    /\ UNCHANGED result

\* conn.baselineHypervisorCPU(path, arch, machine, domain, [cpuXML], flags)
rpc_baselineHypervisorCPU ==
    /\ pc = "newer"
    /\ \E out \in RpcOutcomes :
          /\ rpcLog' = Append(rpcLog, [call |-> "baselineHypervisorCPU", mode |-> idx,
                                       cpus |-> << cpuXML >>, out |-> out])
          /\ IF out.kind = "ok" THEN Expanded(out)
             ELSE IF except_libvirtError_expand(out)
             THEN pc' = "older" /\ UNCHANGED <<idx, features, cpuXML, result>>
             ELSE SecLeave("raise", "Exception")
    /\ UNCHANGED <<phase, conn, caps>>

\* conn.baselineCPU([cpuXML], flags), the fallback
rpc_baselineCPU ==
    /\ pc = "older"
    /\ \E out \in RpcOutcomes :
          /\ rpcLog' = Append(rpcLog, [call |-> "baselineCPU", mode |-> idx,
                                       cpus |-> << cpuXML >>, out |-> out])
          /\ IF out.kind = "ok" THEN Expanded(out)
             ELSE IF except_libvirtError_query(out)
             THEN /\ idx' = break_target(caps, idx)
                  /\ pc' = "loop"
                  /\ cpuXML' = None
                  /\ UNCHANGED <<features, result>>
             ELSE SecLeave("raise", "Exception")
    /\ UNCHANGED <<phase, conn, caps>>

Next ==
    \/ build
    \/ q_find_uefi_path_for_arch
    \/ q_label_for_firmware_path
    \/ q_arch_can_uefi
    \/ q_supports_uefi_xml
    \/ q_supports_safe_host_model
    \/ q_get_cpu_models
    \/ sec_begin
    \/ sec_loop
    \/ rpc_baselineHypervisorCPU
    \/ rpc_baselineCPU

Spec == Init /\ [][Next]_vars

(***************************************************************************)
(* Properties.                                                             *)
(***************************************************************************)
SecurityWhitelist == {"spec-ctrl", "ssbd", "ibpb", "virt-ssbd"}

\* The names of the whitelisted features of a descriptor, in its order.
WhitelistedNames(fl) ==
    LET kept == SelectSeq(fl, LAMBDA f : f.name \in SecurityWhitelist)
    IN  [k \in 1..Len(kept) |-> kept[k].name]

RECURSIVE Flatten(_)
Flatten(seqs) == IF seqs = << >> THEN << >> ELSE Head(seqs) \o Flatten(Tail(seqs))

OlderFailedAt(k) ==
    rpcLog[k].call = "baselineCPU" /\ rpcLog[k].out.kind = "libvirtError"

SecReturned ==
    pc = "idle" /\ result.op = "get_cpu_security_features" /\ result.kind = "return"

\* What the answers logged before position k contribute.
AccumulatedBefore(k) ==
    Flatten([j \in 1..(k - 1) |->
                IF rpcLog[j].out.kind = "ok"
                THEN WhitelistedNames(rpcLog[j].out.features) ELSE << >>])

\* C1: when the connection does not support domain capabilities, or the
\* fetch raises, build_from_params returns (it does not raise) an instance
\* with arch, domain, machine and path absent and no modes, loader values
\* or enums; every query on that instance returns, and returns none, false
\* or an empty list (a label for an absent path is "None"), with no RPC.
C1_StubWhenUnsupportedOrFetchFails ==
    (phase # "new" /\ (~conn.supports \/ conn.fetch = "error")) =>
        /\ phase = "built"
        /\ caps.arch = None /\ caps.domain = None
        /\ caps.machine = None /\ caps.path = None
        /\ caps.modes = << >>
        /\ caps.loader_values = << >> /\ caps.loader_enums = << >>
        /\ result.kind = "return"
        /\ rpcLog = << >>
        /\ result.op \in {"find_uefi_path_for_arch"} => result.val = None
        /\ result.op \in {"arch_can_uefi", "supports_uefi_xml"} => result.val = "False"
        /\ result.op \in {"supports_safe_host_model", "get_cpu_models",
                          "get_cpu_security_features"} => result.val = << >>
        /\ (result.op = "label_for_firmware_path" /\ result.arg \in {None, ""})
              => result.val = <<"None">>

C1_Witness ==
    /\ phase = "built" /\ conn.supports /\ conn.fetch = "error"
    /\ result.op = "get_cpu_security_features" /\ pc = "idle"

\* C2: once the fallback baselineCPU call of a mode has failed with a
\* libvirtError, no further RPC is issued, and the query returns (does not
\* raise) exactly the whitelisted names of the answers received before.
C2_FailureStopsAndKeepsAccumulated ==
    \A k \in 1..Len(rpcLog) :
        OlderFailedAt(k) =>
            /\ k = Len(rpcLog)
            /\ pc \in {"loop", "idle"}
            /\ pc = "idle" =>
                  /\ result.op = "get_cpu_security_features"
                  /\ result.kind = "return"
                  /\ result.val = AccumulatedBefore(k)

C2_Witness ==
    /\ SecReturned
    /\ Len(rpcLog) = 3
    /\ rpcLog[1].out.kind = "ok"
    /\ OlderFailedAt(3)
    /\ result.val = <<"ibpb", "virt-ssbd">>

\* C3: in the RPCs of one query, baselineHypervisorCPU is the first call
\* made for a mode and is made once; baselineCPU is made only directly
\* after the baselineHypervisorCPU call of the same mode failed with a
\* libvirtError, and no other call for that mode exists: at most two RPCs
\* per mode, in that order, none repeated.
C3_NewerFirstFallbackOnce ==
    \A k \in 1..Len(rpcLog) :
        /\ rpcLog[k].call \in {"baselineHypervisorCPU", "baselineCPU"}
        /\ rpcLog[k].call = "baselineHypervisorCPU" =>
              \A j \in 1..Len(rpcLog) :
                  (j # k /\ rpcLog[j].mode = rpcLog[k].mode) =>
                      (j = k + 1 /\ rpcLog[j].call = "baselineCPU")
        /\ rpcLog[k].call = "baselineCPU" =>
              /\ k > 1
              /\ rpcLog[k - 1].call = "baselineHypervisorCPU"
              /\ rpcLog[k - 1].mode = rpcLog[k].mode
              /\ rpcLog[k - 1].out.kind = "libvirtError"
              /\ \A j \in 1..Len(rpcLog) :
                    (j # k /\ rpcLog[j].mode = rpcLog[k].mode) => j = k - 1

C3_Witness ==
    /\ SecReturned
    /\ Len(rpcLog) = 3
    /\ rpcLog[1].call = "baselineHypervisorCPU" /\ rpcLog[1].out.kind = "libvirtError"
    /\ rpcLog[2].call = "baselineCPU" /\ rpcLog[2].out.kind = "ok"
    /\ rpcLog[3].call = "baselineHypervisorCPU" /\ rpcLog[3].mode = 2

ExpandedModes ==
    { i \in 1..Len(caps.modes) :
        caps.modes[i].name = "host-model" /\ caps.modes[i].supported = "yes" }

\* The descriptor the hypervisor answered for mode i.
AnswerFor(i) ==
    rpcLog[CHOOSE k \in 1..Len(rpcLog) :
              rpcLog[k].mode = i /\ rpcLog[k].out.kind = "ok"].out.features

\* C4: when the query returns and no expansion failed, RPCs were issued for
\* exactly the modes named host-model with supported="yes", and the result
\* is the concatenation, in mode order, of the whitelisted feature names of
\* each answer, in the answer's order, duplicates kept.
C4_WhitelistedFeaturesInOrder ==
    (SecReturned /\ ~\E k \in 1..Len(rpcLog) : OlderFailedAt(k)) =>
        /\ { rpcLog[k].mode : k \in 1..Len(rpcLog) } = ExpandedModes
        /\ \A i \in ExpandedModes :
              \E k \in 1..Len(rpcLog) : rpcLog[k].mode = i /\ rpcLog[k].out.kind = "ok"
        /\ result.val =
              Flatten([i \in 1..Len(caps.modes) |->
                         IF i \in ExpandedModes
                         THEN WhitelistedNames(AnswerFor(i)) ELSE << >>])
        /\ \A n \in 1..Len(result.val) : result.val[n] \in SecurityWhitelist

C4_Witness ==
    /\ SecReturned
    /\ Len(caps.modes) = 2
    /\ ExpandedModes = {2}
    /\ caps.modes[1].name = "host-model"
    /\ result.val = <<"spec-ctrl", "ssbd", "spec-ctrl">>

TableArchs == {"i686", "x86_64", "aarch64", "armv7l"}

\* The (pattern, value) pairs of the instance's architecture that match.
UefiHits ==
    { h \in (1..Len(patterns_get(caps.arch))) \X (1..Len(caps.loader_values)) :
        re_match(patterns_get(caps.arch)[h[1]], caps.loader_values[h[2]]) }

\* C5: find_uefi_path_for_arch returns none when the arch is no key of the
\* pattern table; otherwise it returns the loader value of the matching
\* (pattern, value) pair that is least in pattern order first and value
\* order second, and none when no pair matches.
C5_FirstPatternThenFirstValue ==
    result.op = "find_uefi_path_for_arch" =>
        /\ result.kind = "return"
        /\ IF caps.arch \notin TableArchs THEN result.val = None
           ELSE IF UefiHits = {} THEN result.val = None
           ELSE \E h \in UefiHits :
                   /\ result.val = caps.loader_values[h[2]]
                   /\ \A g \in UefiHits :
                         h[1] < g[1] \/ (h[1] = g[1] /\ h[2] <= g[2])

\* The second value wins: the first one matches only a later pattern.
C5_Witness ==
    /\ result.op = "find_uefi_path_for_arch"
    /\ caps.arch = "x86_64"
    /\ caps.loader_values = << "/ovmf/x.bin", "/OVMF/OVMF_CODE.fd" >>
    /\ result.val = "/OVMF/OVMF_CODE.fd"

\* The positions in the table of the architectures with a pattern matching path.
MatchingArchs(path) ==
    { a \in 1..Len(_uefi_arch_patterns) :
        \E p \in 1..Len(_uefi_arch_patterns[a].patterns) :
            re_match(_uefi_arch_patterns[a].patterns[p], path) }

\* C6: for an absent path (None or the empty text) the label is "BIOS" on
\* i686 and x86_64 and "None" on any other arch; for a path it is the UEFI
\* label of the first architecture of the table with a matching pattern,
\* whatever the instance's arch, and the Custom label exactly when no
\* pattern of the table matches.
C6_LabelByFirstMatchingArch ==
    result.op = "label_for_firmware_path" =>
        /\ result.kind = "return"
        /\ IF result.arg \in {None, ""}
           THEN result.val = (IF caps.arch \in {"i686", "x86_64"}
                              THEN <<"BIOS">> ELSE <<"None">>)
           ELSE /\ (result.val = <<"Custom: ", result.arg>>)
                       <=> (MatchingArchs(result.arg) = {})
                /\ MatchingArchs(result.arg) # {} =>
                       \E a \in MatchingArchs(result.arg) :
                          /\ \A b \in MatchingArchs(result.arg) : a <= b
                          /\ result.val = <<"UEFI ", _uefi_arch_patterns[a].arch,
                                            ": ", result.arg>>

\* An aarch64 instance labels an i686 firmware, which x86_64 patterns match too.
C6_Witness ==
    /\ result.op = "label_for_firmware_path"
    /\ caps.arch = "aarch64"
    /\ result.arg = "/ovmf-ia32/fw"
    /\ result.val = <<"UEFI ", "i686", ": ", "/ovmf-ia32/fw">>

C8_OneEntryPerMode ==
    result.op = "supports_safe_host_model" =>
        /\ result.kind = "return"
        /\ Len(result.val) = Len(caps.modes)
        /\ \A i \in 1..Len(caps.modes) :
              result.val[i] = "True" <=>
                 /\ caps.modes[i].name = "host-model"
                 /\ caps.modes[i].supported = "yes"
                 /\ Len(caps.modes[i].models) > 0
                 /\ caps.modes[i].models[1].fallback = "forbid"

ReadonlyEnums ==
    { i \in 1..Len(caps.loader_enums) : caps.loader_enums[i].name = "readonly" }

\* C9 as stated: supports_uefi_xml is true iff some enum named readonly of
\* the loader block has the value "yes".
C9_AnyReadonlyEnumHasYes ==
    result.op = "supports_uefi_xml" =>
        /\ result.kind = "return"
        /\ result.val = "True" <=>
              \E i \in ReadonlyEnums : InSeq("yes", caps.loader_enums[i].values)

\* C9: supports_uefi_xml returns, without a KeyError, true iff the loader
\* block has an enum named readonly and the last enum of that name has
\* the value "yes"; false otherwise.
C9_LastReadonlyEnumHasYes ==
    result.op = "supports_uefi_xml" =>
        /\ result.kind = "return"
        /\ result.val \in {"True", "False"}
        /\ result.val = "True" <=>
              \E i \in ReadonlyEnums :
                  /\ \A j \in ReadonlyEnums : j <= i
                  /\ InSeq("yes", caps.loader_enums[i].values)

C9_Witness ==
    /\ result.op = "supports_uefi_xml"
    /\ caps.loader_enums = << Enum("readonly", <<"yes", "no">>), Enum("readonly", <<"no">>) >>
    /\ result.val = "False"

\* C10: once built, no step changes the instance: arch, domain, machine,
\* path, the modes with their models, the loader values and the enums.
C10_InstanceImmutable == [][phase = "built" => caps' = caps]_vars

\* An expansion was made (descriptor built, both RPCs failed) on a parsed document.
C10_Witness ==
    /\ SecReturned
    /\ Len(rpcLog) = 2 /\ OlderFailedAt(2)
    /\ caps.modes # << >>
    /\ caps.modes[1].name = "host-model"

====
